---- MODULE Spec2Model ----
(***************************************************************************)
(* The wmediumd python connector (wmediumd/wmediumdPyConnector.py):        *)
(* WmediumdManager, WmediumdStarter and WmediumdServerConn, together with  *)
(* the wmediumd daemon they talk to over a unix stream socket.             *)
(*                                                                         *)
(* The client classes keep their state in class attributes; the model      *)
(* gathers them in one record, the "world" w, together with the daemon's   *)
(* side of the socket.  Every method is an operator from a world (and the  *)
(* method's arguments) to a result [exc, code, ret, w]: the exception that *)
(* left the method ("none" when it returned), the status code an error     *)
(* message carries, the returned value and the world afterwards.           *)
(***************************************************************************)
EXTENDS Integers, Sequences, FiniteSets, TLC

VARIABLES
    is_connected,           \* WmediumdManager.is_connected
    registered_interfaces,  \* WmediumdManager.registered_interfaces
    sock,                   \* WmediumdServerConn.sock: "none", "open", "unconnected", "closed"
    connected,              \* WmediumdServerConn.connected
    starter,                \* the class attributes of WmediumdStarter
    procs,                  \* number of running wmediumd processes (pgrep -x wmediumd)
    sockFile,               \* a socket file exists at the socket path
    stations,               \* the daemon's station table: MACs, the index is the position - 1
    dmode,                  \* the mode the daemon runs in
    mine,                   \* MACs this client added at the daemon and that are still there
    faultSeen,              \* some response carried a tag that was not the expected one
    last,                   \* the last client call: what was called and how it ended
    pc,                     \* per caller of the threaded specification: "idle" or "waiting"
    cur,                    \* per caller: the request it has written
    reqQ,                   \* requests written to the socket, not yet read by the daemon
    respQ,                  \* responses written by the daemon, not yet read by a caller
    got,                    \* per caller: the owner of the response its last read consumed
    overlapped,             \* per caller: another caller used the socket during its request
    codec,                  \* the last request encoded: the arguments and the outcome
    stream,                 \* the response bytes on their way, and the caller reading them
    mismatch,               \* a response with a wrong tag was read on the connection that is open
    cl                      \* per client process of SpecProcs: its class attributes, its position in connect

vars == <<is_connected, registered_interfaces, sock, connected, starter, procs,
          sockFile, stations, dmode, mine, faultSeen, last, pc, cur, reqQ, respQ,
          got, overlapped, codec, stream, mismatch, cl>>

threadVars == <<pc, cur, reqQ, respQ, got, overlapped>>

-----------------------------------------------------------------------------
(* Bounds of the model *)

\* registered_interfaces is followed up to this length.
MaxRegistered == 2

\* The MAC addresses the callers use.
MACS == {1, 2}

\* The callers (threads) that share the connection in SpecThreads.
Callers == {1, 2}

-----------------------------------------------------------------------------
(* WmediumdConstants *)

WMEDIUMD_MODE_SNR == 0
WMEDIUMD_MODE_ERRPROB == 1
WMEDIUMD_MODE_SPECPROB == 2

WSERVER_SNR_UPDATE_REQUEST_TYPE == 1
WSERVER_SNR_UPDATE_RESPONSE_TYPE == 2
WSERVER_DEL_BY_MAC_REQUEST_TYPE == 3
WSERVER_DEL_BY_MAC_RESPONSE_TYPE == 4
WSERVER_DEL_BY_ID_REQUEST_TYPE == 5
WSERVER_DEL_BY_ID_RESPONSE_TYPE == 6
WSERVER_ADD_REQUEST_TYPE == 7
WSERVER_ADD_RESPONSE_TYPE == 8
WSERVER_ERRPROB_UPDATE_REQUEST_TYPE == 9
WSERVER_ERRPROB_UPDATE_RESPONSE_TYPE == 10
WSERVER_SPECPROB_UPDATE_REQUEST_TYPE == 11
WSERVER_SPECPROB_UPDATE_RESPONSE_TYPE == 12

WUPDATE_SUCCESS == 0
WUPDATE_INTF_NOTFOUND == 1
WUPDATE_INTF_DUPLICATE == 2
WUPDATE_WRONG_MODE == 3

ValidModes == {WMEDIUMD_MODE_SNR, WMEDIUMD_MODE_ERRPROB, WMEDIUMD_MODE_SPECPROB}

ResponseTypes == {WSERVER_SNR_UPDATE_RESPONSE_TYPE, WSERVER_DEL_BY_MAC_RESPONSE_TYPE,
                  WSERVER_DEL_BY_ID_RESPONSE_TYPE, WSERVER_ADD_RESPONSE_TYPE,
                  WSERVER_ERRPROB_UPDATE_RESPONSE_TYPE,
                  WSERVER_SPECPROB_UPDATE_RESPONSE_TYPE}

-----------------------------------------------------------------------------
(* Sequences *)

Range(s) == {s[i] : i \in 1..Len(s)}

\* The position of the first x in s, 0 when there is none (list.index).
IndexOf(s, x) ==
    IF x \in Range(s) THEN CHOOSE i \in 1..Len(s) : s[i] = x /\ \A j \in 1..(i - 1) : s[j] # x
    ELSE 0

RemoveAt(s, i) == SubSeq(s, 1, i - 1) \o SubSeq(s, i + 1, Len(s))

-----------------------------------------------------------------------------
(* The wire: requests and responses as the struct formats lay them out *)

NoValue == 0 - 1

\* A message of the protocol.  A request ('B6s', 'Bi', 'B6s6si', 'B6s6s144i')
\* carries its tag and its payload; a response echoes the request's payload and
\* adds the station index (Add only) and the status byte.  The protocol has no
\* request ids: owner is not on the wire, it only remembers which caller wrote
\* the request (0: the single caller of Spec), and the client never reads it.
Msg(type, mac, mac_to, value, index, status) ==
    [type |-> type, mac |-> mac, mac_to |-> mac_to, value |-> value,
     index |-> index, status |-> status, owner |-> 0]

Ev(ev, msg) == [ev |-> ev, msg |-> msg]

NoMsg == Msg(NoValue, NoValue, NoValue, NoValue, NoValue, NoValue)

create_snr_update_request(link) ==
    Msg(WSERVER_SNR_UPDATE_REQUEST_TYPE, link.from, link.to, link.value, NoValue, NoValue)

create_errprob_update_request(link) ==
    Msg(WSERVER_ERRPROB_UPDATE_REQUEST_TYPE, link.from, link.to, link.value, NoValue, NoValue)

create_specprob_update_request(link) ==
    Msg(WSERVER_SPECPROB_UPDATE_REQUEST_TYPE, link.from, link.to, link.value, NoValue, NoValue)

create_station_del_by_mac_request(mac) ==
    Msg(WSERVER_DEL_BY_MAC_REQUEST_TYPE, mac, NoValue, NoValue, NoValue, NoValue)

create_station_del_by_id_request(sta_id) ==
    Msg(WSERVER_DEL_BY_ID_REQUEST_TYPE, NoValue, NoValue, sta_id, NoValue, NoValue)

create_station_add_request(mac) ==
    Msg(WSERVER_ADD_REQUEST_TYPE, mac, NoValue, NoValue, NoValue, NoValue)

-----------------------------------------------------------------------------
(* The wmediumd daemon: the other end of the socket (section 6 of the       *)
(* specification: one response per request, status 0 success, 1 interface  *)
(* not found, 2 duplicate interface, 3 wrong mode).                        *)

\* The mode an update request needs the daemon to run in.
ModeOfUpdate(type) ==
    CASE type = WSERVER_SNR_UPDATE_REQUEST_TYPE -> WMEDIUMD_MODE_SNR
      [] type = WSERVER_ERRPROB_UPDATE_REQUEST_TYPE -> WMEDIUMD_MODE_ERRPROB
      [] OTHER -> WMEDIUMD_MODE_SPECPROB

\* The status the daemon answers a request with.
DaemonStatus(st, mode, req) ==
    CASE req.type = WSERVER_ADD_REQUEST_TYPE ->
            IF req.mac \in Range(st) THEN WUPDATE_INTF_DUPLICATE ELSE WUPDATE_SUCCESS
      [] req.type = WSERVER_DEL_BY_MAC_REQUEST_TYPE ->
            IF req.mac \in Range(st) THEN WUPDATE_SUCCESS ELSE WUPDATE_INTF_NOTFOUND
      [] req.type = WSERVER_DEL_BY_ID_REQUEST_TYPE ->
            IF req.value \in 0..(Len(st) - 1) THEN WUPDATE_SUCCESS ELSE WUPDATE_INTF_NOTFOUND
      [] OTHER ->
            IF mode # ModeOfUpdate(req.type) THEN WUPDATE_WRONG_MODE
            ELSE IF req.mac \in Range(st) /\ req.mac_to \in Range(st) THEN WUPDATE_SUCCESS
            ELSE WUPDATE_INTF_NOTFOUND

\* The station table after the request.
DaemonStations(st, mode, req) ==
    IF DaemonStatus(st, mode, req) # WUPDATE_SUCCESS THEN st
    ELSE CASE req.type = WSERVER_ADD_REQUEST_TYPE -> Append(st, req.mac)
           [] req.type = WSERVER_DEL_BY_MAC_REQUEST_TYPE -> RemoveAt(st, IndexOf(st, req.mac))
           [] req.type = WSERVER_DEL_BY_ID_REQUEST_TYPE -> RemoveAt(st, req.value + 1)
           [] OTHER -> st

\* The station index of an Add response: the new station's index on success.
DaemonIndex(st, mode, req) ==
    IF req.type = WSERVER_ADD_REQUEST_TYPE /\ DaemonStatus(st, mode, req) = WUPDATE_SUCCESS
    THEN Len(st) ELSE NoValue

\* The daemon's answer to request req, tagged `tag`: the response is queued, the
\* station table updated.
DaemonAnswer(w, req, status, st, tag) ==
    [w EXCEPT !.reqQ = Tail(@),
              !.respQ = Append(@, [req EXCEPT !.type = tag,
                                              !.index = DaemonIndex(w.stations, w.dmode, req),
                                              !.status = status]),
              !.stations = st,
              !.mine = (@ \cap Range(st)) \cup
                       (IF req.type = WSERVER_ADD_REQUEST_TYPE /\ status = WUPDATE_SUCCESS
                        THEN {req.mac} ELSE {}),
              !.faultSeen = @ \/ tag # req.type + 1]

\* The daemon reads the oldest request and writes its response, tagged `tag`
\* (the request's tag + 1, unless the daemon is out of step).
DaemonServe(w, tag) ==
    DaemonAnswer(w, Head(w.reqQ),
                 DaemonStatus(w.stations, w.dmode, Head(w.reqQ)),
                 DaemonStations(w.stations, w.dmode, Head(w.reqQ)), tag)

-----------------------------------------------------------------------------
(* Results of a method *)

Returned(w, ret) == [exc |-> "none", code |-> NoValue, ret |-> ret, w |-> w]

Raised(w, exc, code) == [exc |-> exc, code |-> code, ret |-> NoValue, w |-> w]

\* Statement sequencing: an exception leaves the method, otherwise the rest of
\* the method runs on the result r of the statement.
Try(r, Rest(_)) == IF r.exc # "none" THEN r ELSE Rest(r)

-----------------------------------------------------------------------------
(* WmediumdServerConn *)

\* cls.sock.send(request): an AttributeError while sock is None, a socket error
\* on a socket that is closed or was never connected; nothing is written then.
sock_send(w, req) ==
    CASE w.sock = "none" -> Raised(w, "AttributeError", NoValue)
      [] w.sock \in {"closed", "unconnected"} -> Raised(w, "SocketError", NoValue)
      [] OTHER -> Returned([w EXCEPT !.reqQ = Append(@, req),
                                     !.wire = Append(@, Ev("send", req))], NoValue)

\* check_type without its comparison: whatever was read is unpacked.
check_type_unchecked(w, resp, expected_type) == Returned(w, resp)

\* The tag check of __parse_response on the response read.
check_type(w, resp, expected_type) ==
    IF resp.type # expected_type
    THEN Raised(w, "UnknownType", NoValue)
    ELSE Returned(w, resp)

\* __parse_response, with a response to read: the response is consumed, its tag
\* is compared with the expected one, and the unpacked fields are returned.
parse_response(w, expected_type) ==
    check_type([w EXCEPT !.respQ = Tail(@), !.wire = Append(@, Ev("recv", Head(w.respQ)))],
               Head(w.respQ), expected_type)

\* The body shared by the six send methods: write the request, block until the
\* daemon has answered (with a response tagged `tag`), parse the response.
send_and_parse(w, req, expected_type, tag) ==
    Try(sock_send(w, req),
        LAMBDA s : parse_response(DaemonServe(s.w, tag), expected_type))

\* resp[-1]: a send method returns the status
send_snr_update(w, link, tag) ==
    Try(send_and_parse(w, create_snr_update_request(link),
                       WSERVER_SNR_UPDATE_RESPONSE_TYPE, tag),
        LAMBDA r : Returned(r.w, r.ret.status))

send_errprob_update(w, link, tag) ==
    Try(send_and_parse(w, create_errprob_update_request(link),
                       WSERVER_ERRPROB_UPDATE_RESPONSE_TYPE, tag),
        LAMBDA r : Returned(r.w, r.ret.status))

send_specprob_update(w, link, tag) ==
    Try(send_and_parse(w, create_specprob_update_request(link),
                       WSERVER_SPECPROB_UPDATE_RESPONSE_TYPE, tag),
        LAMBDA r : Returned(r.w, r.ret.status))

send_del_by_mac(w, mac, tag) ==
    Try(send_and_parse(w, create_station_del_by_mac_request(mac),
                       WSERVER_DEL_BY_MAC_RESPONSE_TYPE, tag),
        LAMBDA r : Returned(r.w, r.ret.status))

send_del_by_id(w, sta_id, tag) ==
    Try(send_and_parse(w, create_station_del_by_id_request(sta_id),
                       WSERVER_DEL_BY_ID_RESPONSE_TYPE, tag),
        LAMBDA r : Returned(r.w, r.ret.status))

\* returns resp[-1], resp[-2]: the status and the station index
send_add(w, mac, tag) ==
    Try(send_and_parse(w, create_station_add_request(mac),
                       WSERVER_ADD_RESPONSE_TYPE, tag),
        LAMBDA r : Returned(r.w, [status |-> r.ret.status, sta_id |-> r.ret.index]))

\* CheckStatus raising on interface-not-found alone
CheckStatus_notfound_only(w, ret, value) ==
    IF ret = WUPDATE_INTF_NOTFOUND THEN Raised(w, "ErrorCode", ret) ELSE Returned(w, value)

\* if ret != WUPDATE_SUCCESS: raise WmediumdException("... code %d" % ret)
CheckStatus(w, ret, value) ==
    IF ret # WUPDATE_SUCCESS THEN Raised(w, "ErrorCode", ret) ELSE Returned(w, value)

ServerConn_register_interface(w, mac, tag) ==
    Try(send_add(w, mac, tag), LAMBDA r : CheckStatus(r.w, r.ret.status, r.ret.sta_id))

\* unregister_interface dropping the returned status
ServerConn_unregister_interface_unchecked(w, mac, tag) ==
    Try(send_del_by_mac(w, mac, tag), LAMBDA r : Returned(r.w, NoValue))

ServerConn_unregister_interface(w, mac, tag) ==
    Try(send_del_by_mac(w, mac, tag), LAMBDA r : CheckStatus(r.w, r.ret, NoValue))

ServerConn_update_link_snr(w, link, tag) ==
    Try(send_snr_update(w, link, tag), LAMBDA r : CheckStatus(r.w, r.ret, NoValue))

ServerConn_update_link_errprob(w, link, tag) ==
    Try(send_errprob_update(w, link, tag), LAMBDA r : CheckStatus(r.w, r.ret, NoValue))

ServerConn_update_link_specprob(w, link, tag) ==
    Try(send_specprob_update(w, link, tag), LAMBDA r : CheckStatus(r.w, r.ret, NoValue))

\* A daemon is listening at the socket path.
Listening(w) == w.procs > 0 /\ w.sockFile

\* connect without the test of cls.connected: a new socket replaces the old one
ServerConn_connect_again(w) ==
    IF ~Listening(w)
    THEN Raised([w EXCEPT !.sock = "unconnected"], "SocketError", NoValue)
    ELSE Returned([w EXCEPT !.sock = "open", !.connected = TRUE,
                            !.reqQ = <<>>, !.respQ = <<>>], NoValue)

ServerConn_connect(w) ==
    IF w.connected THEN Raised(w, "AlreadyConnected", NoValue)
    ELSE IF ~Listening(w)
         THEN Raised([w EXCEPT !.sock = "unconnected"], "SocketError", NoValue)
         ELSE Returned([w EXCEPT !.sock = "open", !.connected = TRUE,
                                 !.reqQ = <<>>, !.respQ = <<>>], NoValue)

ServerConn_disconnect(w) ==
    IF ~w.connected THEN Raised(w, "NotConnected", NoValue)
    ELSE Returned([w EXCEPT !.sock = "closed", !.connected = FALSE,
                            !.wire = Append(@, Ev("close", NoMsg))], NoValue)

-----------------------------------------------------------------------------
(* WmediumdStarter *)

\* initialize(intfrefs, links, mode=mode): the attributes are stored first, the
\* mode is validated afterwards.  links_ok: every link is between stations of
\* intfrefs.
Starter_initialize_links(w, mode, links_ok) ==
    IF mode \notin ValidModes
    THEN Raised([w EXCEPT !.starter.mode = mode, !.starter.links_ok = links_ok],
                "WrongMode", NoValue)
    ELSE Returned([w EXCEPT !.starter.mode = mode, !.starter.links_ok = links_ok,
                            !.starter.is_initialized = TRUE], NoValue)

\* initialize(parameters=['-l', '5'], mode=mode): no interfaces, no links
Starter_initialize(w, mode) == Starter_initialize_links(w, mode, TRUE)

\* The daemon process is launched (subprocess.Popen); `ready` says whether its
\* server socket is there when the caller looks for it.
Launch(w, ready) ==
    Returned([w EXCEPT !.procs = @ + 1,
                       !.sockFile = @ \/ ready,
                       !.dmode = IF w.procs = 0 THEN w.starter.mode ELSE @,
                       !.stations = IF w.procs = 0 THEN <<>> ELSE @,
                       !.mine = IF w.procs = 0 THEN {} ELSE @,
                       !.starter.wmd_process = w.procs + 1,
                       !.starter.wmd_config =
                           @ \/ w.starter.mode # WMEDIUMD_MODE_SPECPROB,
                       !.starter.is_connected = TRUE], NoValue)

\* start() without the test of is_connected
Starter_start_unchecked(w, ready) ==
    IF ~w.starter.is_initialized THEN Raised(w, "NotInitialized", NoValue)
    ELSE IF ~w.starter.links_ok THEN Raised(w, "NotManagedInterface", NoValue)
    ELSE Launch(w, ready)

\* start(): raises before initialize, while connected, and for a link with a
\* station that is not among the managed interfaces; otherwise the config is
\* written and the daemon launched.
Starter_start(w, ready) ==
    IF ~w.starter.is_initialized THEN Raised(w, "NotInitialized", NoValue)
    ELSE IF w.starter.is_connected THEN Raised(w, "StarterConnected", NoValue)
    ELSE IF ~w.starter.links_ok THEN Raised(w, "NotManagedInterface", NoValue)
    ELSE Launch(w, ready)

\* if not cls.is_initialized: cls.initialize()
InitializeIfNeeded(w) ==
    IF w.starter.is_initialized THEN Returned(w, NoValue)
    ELSE Starter_initialize(w, WMEDIUMD_MODE_SNR)

Starter_start_managed(w, ready) ==
    Try(InitializeIfNeeded([w EXCEPT !.starter.is_managed = TRUE]),
        LAMBDA i : Starter_start(i.w, ready))

\* kill_wmediumd(): nothing in managed mode; otherwise SIGINT, then SIGKILL, to
\* the process start() launched (an OSError of send_signal is passed over).
Starter_kill_wmediumd(w) ==
    IF w.starter.is_managed THEN Returned(w, NoValue)
    ELSE IF ~w.starter.is_connected THEN Raised(w, "StarterNotConnected", NoValue)
    ELSE Returned([w EXCEPT !.procs = IF @ > 0 THEN @ - 1 ELSE @], NoValue)

\* The rest of stop() after kill_wmediumd: the config file is removed and
\* is_connected cleared.
RemoveConfig(w) ==
    Returned([w EXCEPT !.starter.wmd_config = FALSE, !.starter.is_connected = FALSE], NoValue)

\* stop() without the test of is_managed
Starter_stop_any_mode(w) ==
    IF ~w.starter.is_connected THEN Raised(w, "StarterNotConnected", NoValue)
    ELSE Try(Starter_kill_wmediumd(w), LAMBDA k : RemoveConfig(k.w))

\* stop(): nothing (but a logged error) in managed mode.
Starter_stop(w) ==
    IF w.starter.is_managed THEN Returned(w, NoValue)
    ELSE IF ~w.starter.is_connected THEN Raised(w, "StarterNotConnected", NoValue)
    ELSE Try(Starter_kill_wmediumd(w), LAMBDA k : RemoveConfig(k.w))

-----------------------------------------------------------------------------
(* WmediumdManager *)

\* A connect that starts a daemon without looking for a running one
StartAlways(w, mode, ready) ==
    Try(Starter_initialize(w, mode), LAMBDA i : Starter_start_managed(i.w, ready))

\* if not is_started: initialize, start_managed (and sleep)
StartIfNeeded(w, mode, ready) ==
    IF w.procs > 0 THEN Returned(w, NoValue)
    ELSE Try(Starter_initialize(w, mode), LAMBDA i : Starter_start_managed(i.w, ready))

\* A connect that goes on to the server connection when a daemon runs without
\* its socket
Manager_connect_without_check(w, mode, ready) ==
    Try(StartIfNeeded(w, mode, ready),
        LAMBDA s : Try(ServerConn_connect(s.w),
                       LAMBDA c : Returned([c.w EXCEPT !.is_connected = TRUE], NoValue)))

\* A connect that sets is_connected before the server connection is made
Manager_connect_flag_first(w, mode, ready) ==
    IF w.procs > 0 /\ ~w.sockFile THEN Raised(w, "NoServer", NoValue)
    ELSE Try(StartIfNeeded(w, mode, ready),
             LAMBDA s : ServerConn_connect([s.w EXCEPT !.is_connected = TRUE]))

Manager_connect(w, mode, ready) ==
    IF w.procs > 0 /\ ~w.sockFile THEN Raised(w, "NoServer", NoValue)
    ELSE Try(StartIfNeeded(w, mode, ready),
             LAMBDA s : Try(ServerConn_connect(s.w),
                            LAMBDA c : Returned([c.w EXCEPT !.is_connected = TRUE], NoValue)))

\* register_interface appending the MAC before it asks the daemon
AppendAlways(r, mac) == [r EXCEPT !.w.registered_interfaces = Append(@, mac)]

Manager_register_interface_append_first(w, mac, tag) ==
    AppendAlways(ServerConn_register_interface(w, mac, tag), mac)

Manager_register_interface(w, mac, tag) ==
    Try(ServerConn_register_interface(w, mac, tag),
        LAMBDA r : Returned([r.w EXCEPT !.registered_interfaces = Append(@, mac)], r.ret))

\* registered_interfaces.remove(mac) removes the first mac of the list and raises
\* ValueError when the list holds none.
list_remove(w, mac) ==
    IF mac \notin Range(w.registered_interfaces)
    THEN Raised(w, "ValueError", NoValue)
    ELSE Returned([w EXCEPT !.registered_interfaces = RemoveAt(@, IndexOf(@, mac))], NoValue)

Manager_unregister_interface(w, mac, tag) ==
    Try(ServerConn_unregister_interface(w, mac, tag), LAMBDA r : list_remove(r.w, mac))

\* for mac in registered_interfaces: cls.unregister_interface(mac)
\* The i-th response is tagged ftag when i = fpos, and as a Delete-by-MAC
\* response otherwise.
RECURSIVE UnregisterAll(_, _, _, _, _)
UnregisterAll(w, macs, i, fpos, ftag) ==
    IF macs = <<>> THEN Returned(w, NoValue)
    ELSE Try(Manager_unregister_interface(w, Head(macs),
                 IF i = fpos THEN ftag ELSE WSERVER_DEL_BY_MAC_RESPONSE_TYPE),
             LAMBDA r : UnregisterAll(r.w, Tail(macs), i + 1, fpos, ftag))

\* disconnect iterating registered_interfaces itself instead of a copy: every
\* removal shifts the list under the iterator, which then skips the next MAC.
EveryOther(macs) == [i \in 1..((Len(macs) + 1) \div 2) |-> macs[2 * i - 1]]

Manager_disconnect_live_list(w, fpos, ftag) ==
    IF ~w.is_connected THEN Raised(w, "NotConnected", NoValue)
    ELSE Try(UnregisterAll(w, EveryOther(w.registered_interfaces), 1, fpos, ftag),
             LAMBDA u : Try(ServerConn_disconnect(u.w),
                            LAMBDA d : Returned([d.w EXCEPT !.is_connected = FALSE], NoValue)))

\* WmediumdManager.disconnect: unregister a copy of registered_interfaces one by
\* one, then close the server connection and clear is_connected.
Manager_disconnect(w, fpos, ftag) ==
    IF ~w.is_connected THEN Raised(w, "NotConnected", NoValue)
    ELSE Try(UnregisterAll(w, w.registered_interfaces, 1, fpos, ftag),
             LAMBDA u : Try(ServerConn_disconnect(u.w),
                            LAMBDA d : Returned([d.w EXCEPT !.is_connected = FALSE], NoValue)))

\* update_link_snr keeping the link's interface in the registry
Manager_update_link_snr_cached(w, link, tag) ==
    AppendAlways(ServerConn_update_link_snr(w, link, tag), link.from)

Manager_update_link_snr(w, link, tag) == ServerConn_update_link_snr(w, link, tag)

Manager_update_link_errprob(w, link, tag) == ServerConn_update_link_errprob(w, link, tag)

Manager_update_link_specprob(w, link, tag) == ServerConn_update_link_specprob(w, link, tag)

-----------------------------------------------------------------------------
(* The wire encoding: MAC strings, struct formats, fixed-point values.         *)
(* A character of a MAC string is written as a number: a hex digit as its      *)
(* value 0..15, the colon as Colon, any other character as NonHex.             *)

Colon == 15 + 1

NonHex == 15 + 2

IsHexDigit(c) == c \in 0..15

\* mac.replace(':', '')
replace_colons(mac) == SelectSeq(mac, LAMBDA c : c # Colon)

Encoded(out) == [exc |-> "none", out |-> out]

EncodeFailed(exc) == [exc |-> exc, out |-> <<>>]

\* str.decode('hex'): TypeError for an odd number of characters or a character
\* that is no hex digit, else one byte for every two digits - however many
\* there are.
decode_hex(s) ==
    IF Len(s) % 2 = 1 \/ \E i \in 1..Len(s) : ~IsHexDigit(s[i])
    THEN EncodeFailed("TypeError")
    ELSE Encoded([i \in 1..(Len(s) \div 2) |-> 16 * s[2 * i - 1] + s[2 * i]])

\* The bytes struct.pack writes for a '6s' field: the string cut after six
\* bytes, or filled up to six with null bytes.
pack_6s(bytes) == [i \in 1..6 |-> IF i <= Len(bytes) THEN bytes[i] ELSE 0]

-----------------------------------------------------------------------------
(* 32 bit values.  The inputs of the fixed-point conversion are the multiples  *)
(* of 2^-FracBits, written as their numerator; every 32 bit quantity the       *)
(* conversion computes from them is a multiple of 2^(31 - FracBits) and is     *)
(* written in that unit, so that 1 << 31 is Scale and the signed 32 bit range  *)
(* is -Scale .. Scale - 1.                                                      *)

FracBits == 3

Scale == 2 ^ FracBits

\* ctypes.c_int32(x).value: x reduced to the signed 32 bit range
c_int32(x) == ((x + Scale) % (2 * Scale)) - Scale

\* int(x) of a float: the fraction is cut off, towards zero.  Trunc(n, q) is
\* int(n / q).
Trunc(n, q) == IF n >= 0 THEN n \div q ELSE 0 - ((0 - n) \div q)

\* one_shifted = ctypes.c_int32(1 << 31).value
one_shifted == c_int32(Scale)

\* __conv_float_to_fixed_point(d) for d = n / Scale.  beforecomma << 31 is
\* beforecomma * Scale units; (d - beforecomma) * one_shifted is the product of
\* the fraction's numerator with one_shifted / Scale.
conv_float_to_fixed_point(n) ==
    LET beforecomma == Trunc(n, Scale)
        aftercomma == Trunc((n - beforecomma * Scale) * one_shifted, Scale)
    IN c_int32(beforecomma * Scale) + aftercomma

\* The range struct.pack accepts for an 'i' field
FitsInt32(x) == (0 - Scale) <= x /\ x < Scale

\* A value for an 'i' field: a plain integer (an SNR, a station index), or a
\* fixed-point value in its unit.
Plain(n) == [fixed |-> FALSE, v |-> n]

Fixed(n) == [fixed |-> TRUE, v |-> n]

\* struct.pack raises struct.error for an 'i' argument outside the 32 bit range
InRange(x) == ~x.fixed \/ FitsInt32(x.v)

\* The four bytes of an 'i' field in network order.  A fixed-point value of v
\* units is v * 2^(31 - FracBits): only its first byte is not null.
Int32Bytes(x) ==
    IF x.fixed THEN <<(x.v * 2 ^ (7 - FracBits)) % 256, 0, 0, 0>>
    ELSE IF x.v >= 0 THEN <<0, 0, 0, x.v % 256>>
    ELSE <<255, 255, 255, (256 + x.v) % 256>>

-----------------------------------------------------------------------------
(* struct formats of WmediumdServerConn ("!": network order, no padding) *)

base_struct_fmt == <<"B">>

mac_struct_fmt == <<"6s">>

snr_update_request_fmt == base_struct_fmt \o mac_struct_fmt \o mac_struct_fmt \o <<"i">>

errprob_update_request_fmt == base_struct_fmt \o mac_struct_fmt \o mac_struct_fmt \o <<"i">>

specprob_update_request_fmt ==
    base_struct_fmt \o mac_struct_fmt \o mac_struct_fmt \o [i \in 1..144 |-> "i"]

station_del_by_mac_request_fmt == base_struct_fmt \o mac_struct_fmt

station_del_by_id_request_fmt == base_struct_fmt \o <<"i">>

station_add_request_fmt == base_struct_fmt \o mac_struct_fmt

\* The bytes of one field
FieldBytes(code, value) ==
    CASE code = "B" -> <<value>>
      [] code = "6s" -> pack_6s(value)
      [] OTHER -> Int32Bytes(value)

\* The bytes of the fields lo..hi, one after the other
RECURSIVE PackFields(_, _, _, _)
PackFields(fmt, values, lo, hi) ==
    IF lo > hi THEN <<>>
    ELSE IF lo = hi THEN FieldBytes(fmt[lo], values[lo])
    ELSE PackFields(fmt, values, lo, (lo + hi) \div 2)
             \o PackFields(fmt, values, (lo + hi) \div 2 + 1, hi)

\* The position of the first 'i' field of fmt (0: none)
FirstInt(fmt) ==
    IF \E i \in 1..Len(fmt) : fmt[i] = "i"
    THEN CHOOSE i \in 1..Len(fmt) : fmt[i] = "i" /\ \A j \in 1..(i - 1) : fmt[j] # "i"
    ELSE 0

\* pack in native mode (no "!"): pad bytes put the first 'i' field at a
\* multiple of four
PackAligned(fmt, values, k, head) ==
    head \o [i \in 1..((4 - (Len(head) % 4)) % 4) |-> 0] \o PackFields(fmt, values, k, Len(fmt))

struct_pack_native(fmt, values) ==
    IF Len(fmt) # Len(values) \/ \E i \in 1..Len(fmt) : fmt[i] = "i" /\ ~InRange(values[i])
    THEN EncodeFailed("struct.error")
    ELSE IF FirstInt(fmt) = 0 THEN Encoded(PackFields(fmt, values, 1, Len(fmt)))
    ELSE Encoded(PackAligned(fmt, values, FirstInt(fmt),
                             PackFields(fmt, values, 1, FirstInt(fmt) - 1)))

\* struct.Struct('!' + fmt).pack(*values): the fields one after the other
struct_pack(fmt, values) ==
    IF Len(fmt) # Len(values) \/ \E i \in 1..Len(fmt) : fmt[i] = "i" /\ ~InRange(values[i])
    THEN EncodeFailed("struct.error")
    ELSE Encoded(PackFields(fmt, values, 1, Len(fmt)))

\* A request of one MAC address
PackWithMac(fmt, msgtype, mac) ==
    IF decode_hex(replace_colons(mac)).exc # "none" THEN decode_hex(replace_colons(mac))
    ELSE struct_pack(fmt, <<msgtype, decode_hex(replace_colons(mac)).out>>)

\* A request of two MAC addresses and the values after them
PackWithMacs(fmt, msgtype, link, values) ==
    IF decode_hex(replace_colons(link.from)).exc # "none"
    THEN decode_hex(replace_colons(link.from))
    ELSE IF decode_hex(replace_colons(link.to)).exc # "none"
    THEN decode_hex(replace_colons(link.to))
    ELSE struct_pack(fmt, <<msgtype, decode_hex(replace_colons(link.from)).out,
                            decode_hex(replace_colons(link.to)).out>> \o values)

\* The strings the __create_*_request methods return
pack_snr_update_request(link) ==
    PackWithMacs(snr_update_request_fmt, WSERVER_SNR_UPDATE_REQUEST_TYPE, link,
                 <<Plain(link.value)>>)

pack_errprob_update_request(link) ==
    PackWithMacs(errprob_update_request_fmt, WSERVER_ERRPROB_UPDATE_REQUEST_TYPE, link,
                 <<Fixed(conv_float_to_fixed_point(link.value))>>)

\* link.errprobs is a 12 x 12 table holding link.value everywhere
pack_specprob_update_request(link) ==
    PackWithMacs(specprob_update_request_fmt, WSERVER_SPECPROB_UPDATE_REQUEST_TYPE, link,
                 [i \in 1..(12 * 12) |-> Fixed(conv_float_to_fixed_point(link.value))])

pack_station_del_by_mac_request(mac) ==
    PackWithMac(station_del_by_mac_request_fmt, WSERVER_DEL_BY_MAC_REQUEST_TYPE, mac)

pack_station_del_by_id_request(sta_id) ==
    struct_pack(station_del_by_id_request_fmt,
                <<WSERVER_DEL_BY_ID_REQUEST_TYPE, Plain(sta_id)>>)

pack_station_add_request(mac) ==
    PackWithMac(station_add_request_fmt, WSERVER_ADD_REQUEST_TYPE, mac)

\* Nothing encoded yet
NoCodec == [op |-> "none", mac |-> <<>>, to |-> <<>>, value |-> NoValue,
            exc |-> "none", out |-> <<>>, fixed |-> NoValue]

-----------------------------------------------------------------------------
(* Responses as bytes.  A response struct is the base byte (the response's   *)
(* tag), the fields of the request struct and the status byte; the Add       *)
(* response has the station index before the status.                          *)

snr_update_response_fmt == base_struct_fmt \o snr_update_request_fmt \o <<"B">>

errprob_update_response_fmt == base_struct_fmt \o errprob_update_request_fmt \o <<"B">>

specprob_update_response_fmt == base_struct_fmt \o mac_struct_fmt \o mac_struct_fmt \o <<"B">>

station_del_by_mac_response_fmt ==
    base_struct_fmt \o station_del_by_mac_request_fmt \o <<"B">>

station_del_by_id_response_fmt ==
    base_struct_fmt \o station_del_by_id_request_fmt \o <<"B">>

station_add_response_fmt == base_struct_fmt \o station_add_request_fmt \o <<"i", "B">>

\* The bytes a field takes
FieldSize(code) ==
    CASE code = "B" -> 1
      [] code = "6s" -> 6
      [] OTHER -> 4

\* struct.Struct('!' + fmt).size
RECURSIVE calcsize(_)
calcsize(fmt) == IF fmt = <<>> THEN 0 ELSE FieldSize(Head(fmt)) + calcsize(Tail(fmt))

\* The response struct a send method passes to __parse_response, by the tag it
\* expects
ResponseFmt(expected_type) ==
    CASE expected_type = WSERVER_SNR_UPDATE_RESPONSE_TYPE -> snr_update_response_fmt
      [] expected_type = WSERVER_ERRPROB_UPDATE_RESPONSE_TYPE -> errprob_update_response_fmt
      [] expected_type = WSERVER_SPECPROB_UPDATE_RESPONSE_TYPE -> specprob_update_response_fmt
      [] expected_type = WSERVER_DEL_BY_MAC_RESPONSE_TYPE -> station_del_by_mac_response_fmt
      [] expected_type = WSERVER_DEL_BY_ID_RESPONSE_TYPE -> station_del_by_id_response_fmt
      [] OTHER -> station_add_response_fmt

\* cls.sock.recv(size) on a stream socket that has data: the bytes that are
\* there, at most size of them.
sock_recv_bytes(buf, size) == SubSeq(buf, 1, IF Len(buf) < size THEN Len(buf) ELSE size)

\* The int an 'i' field of four bytes unpacks to (a plain value)
unpack_int(b) == IF b[1] = 0 THEN b[4] ELSE b[4] - 256

\* The rest of __parse_response on the bytes recv returned: the tag is
\* recvd_data[0]; resp_struct.unpack raises struct.error unless the data has
\* the struct's size.  Of the tuple unpacked the callers use the status
\* (resp[-1]) and, after an Add, the station index (resp[-2]).
parse_bytes(recvd_data, expected_type, fmt) ==
    IF recvd_data[1] # expected_type
    THEN [exc |-> "UnknownType", status |-> NoValue, index |-> NoValue]
    ELSE IF Len(recvd_data) # calcsize(fmt)
    THEN [exc |-> "struct.error", status |-> NoValue, index |-> NoValue]
    ELSE [exc |-> "none", status |-> recvd_data[Len(recvd_data)],
          index |-> IF expected_type = WSERVER_ADD_RESPONSE_TYPE
                    THEN unpack_int(SubSeq(recvd_data, Len(recvd_data) - 4,
                                           Len(recvd_data) - 1))
                    ELSE NoValue]

\* The six bytes of the MAC address 00:00:00:00:00:0m
MacBytes(m) == [i \in 1..6 |-> IF i = 6 THEN m ELSE 0]

\* The bytes of the daemon's response resp to the request req (an Add or a
\* Delete by index), laid out as the client's response struct has them.
DaemonBytes(req, resp) ==
    IF req.type = WSERVER_ADD_REQUEST_TYPE
    THEN struct_pack(station_add_response_fmt,
                     <<resp.type, req.type, MacBytes(req.mac), Plain(resp.index),
                       resp.status>>).out
    ELSE struct_pack(station_del_by_id_response_fmt,
                     <<resp.type, req.type, Plain(req.value), resp.status>>).out

\* A byte of the stream: its value, and whether the daemon wrote it as the
\* first byte of a response (the client cannot see that).
Marked(bytes) == [i \in 1..Len(bytes) |-> [v |-> bytes[i], first |-> i = 1]]

Values(marked) == [i \in 1..Len(marked) |-> marked[i].v]

\* No call yet, nothing on its way
NoStream == [pc |-> "idle", op |-> "none", expected |-> NoValue, net |-> <<>>,
             buf |-> <<>>, data |-> <<>>, exc |-> "none", status |-> NoValue,
             index |-> NoValue]

-----------------------------------------------------------------------------
(* The state machine *)

\* The world a call starts in: the state, and nothing yet on the call's wire log.
W == [is_connected |-> is_connected,
      registered_interfaces |-> registered_interfaces,
      sock |-> sock, connected |-> connected, starter |-> starter,
      procs |-> procs, sockFile |-> sockFile, stations |-> stations,
      dmode |-> dmode, mine |-> mine, faultSeen |-> faultSeen,
      reqQ |-> reqQ, respQ |-> respQ, wire |-> <<>>]

Commit(w) ==
    /\ is_connected' = w.is_connected
    /\ registered_interfaces' = w.registered_interfaces
    /\ sock' = w.sock
    /\ connected' = w.connected
    /\ starter' = w.starter
    /\ procs' = w.procs
    /\ sockFile' = w.sockFile
    /\ stations' = w.stations
    /\ dmode' = w.dmode
    /\ mine' = w.mine
    /\ faultSeen' = w.faultSeen
    /\ reqQ' = w.reqQ
    /\ respQ' = w.respQ

\* What the client's state was when the call started.
Pre == [registered_interfaces |-> registered_interfaces, sock |-> sock,
        connected |-> connected, is_connected |-> is_connected, stations |-> stations,
        starter |-> starter, procs |-> procs, sockFile |-> sockFile,
        mismatch |-> mismatch]

\* The connection the client uses has had a response with a wrong tag: set by
\* a call that ends with the unknown-type failure, cleared when a call opens a
\* new connection.
Mismatch(r) ==
    IF r.exc = "UnknownType" THEN TRUE
    ELSE IF ~connected /\ r.w.connected THEN FALSE
    ELSE mismatch

\* A call ends: the state is the world it leaves, and `last` records the call.
Done(op, r, ret, idx) ==
    /\ \E w \in {r.w} : Commit(w)
    /\ last' = [op |-> op, exc |-> r.exc, code |-> r.code, ret |-> ret, idx |-> idx,
                pre |-> Pre, wire |-> r.w.wire]
    /\ mismatch' = Mismatch(r)
    /\ UNCHANGED <<pc, cur, got, overlapped, codec, stream, cl>>

\* The link the callers update: from interface 1 to interface 2, with SNR (or
\* probability) 5.
Links == {[from |-> 1, to |-> 2, value |-> 5]}

\* The tags a response to a request may carry: the expected one, or (a daemon
\* out of step) another one.
TagsFor(expected) ==
    {expected, IF expected = WSERVER_ADD_RESPONSE_TYPE
               THEN WSERVER_DEL_BY_MAC_RESPONSE_TYPE ELSE WSERVER_ADD_RESPONSE_TYPE}

Modes == ValidModes \cup {3}

\* The client processes of SpecProcs.  Each has its own copy of the classes'
\* attributes; pc is its position in WmediumdManager.connect.
Clients == {1, 2}

NoClients ==
    [p \in Clients |->
        [pc |-> "idle", mode |-> NoValue, exc |-> "none", is_connected |-> FALSE,
         sock |-> "none", connected |-> FALSE,
         starter |-> [is_managed |-> FALSE, is_initialized |-> FALSE,
                      is_connected |-> FALSE, mode |-> WMEDIUMD_MODE_SNR,
                      wmd_process |-> 0, wmd_config |-> FALSE,
                  links_ok |-> TRUE]]]

Init ==
    /\ is_connected = FALSE
    /\ registered_interfaces = <<>>
    /\ sock = "none"
    /\ connected = FALSE
    /\ starter = [is_managed |-> FALSE, is_initialized |-> FALSE, is_connected |-> FALSE,
                  mode |-> WMEDIUMD_MODE_SNR, wmd_process |-> 0, wmd_config |-> FALSE,
                  links_ok |-> TRUE]
    /\ procs \in {0, 1}
    /\ sockFile \in BOOLEAN
    /\ stations \in (IF procs = 0 THEN {<<>>} ELSE {<<>>, <<1>>})
    /\ dmode \in (IF procs = 0 THEN {WMEDIUMD_MODE_SNR} ELSE ValidModes)
    /\ mine = {}
    /\ faultSeen = FALSE
    /\ cl = NoClients
    /\ mismatch = FALSE
    /\ last = [op |-> "init", exc |-> "none", code |-> NoValue, ret |-> NoValue,
               idx |-> NoValue, pre |-> Pre, wire |-> <<>>]
    /\ pc = [c \in Callers |-> "idle"]
    /\ cur = [c \in Callers |-> NoMsg]
    /\ reqQ = <<>>
    /\ respQ = <<>>
    /\ got = [c \in Callers |-> 0]
    /\ overlapped = [c \in Callers |-> FALSE]
    /\ codec = NoCodec
    /\ stream = NoStream

\* connect(mode=mode); the requested mode is kept in last.idx
Connect ==
    \E mode \in Modes, ready \in BOOLEAN :
        \E r \in {Manager_connect(W, mode, ready)} : Done("connect", r, NoValue, mode)

Disconnect ==
    \E fpos \in 0..Len(registered_interfaces) :
        \E r \in {Manager_disconnect(W, fpos, WSERVER_ADD_RESPONSE_TYPE)} :
            Done("disconnect", r, NoValue, NoValue)

Register ==
    /\ Len(registered_interfaces) < MaxRegistered
    /\ \E mac \in MACS, tag \in TagsFor(WSERVER_ADD_RESPONSE_TYPE) :
          \E r \in {Manager_register_interface(W, mac, tag)} :
              Done("register_interface", r, r.ret, NoValue)

Unregister ==
    \E mac \in MACS, tag \in TagsFor(WSERVER_DEL_BY_MAC_RESPONSE_TYPE) :
        \E r \in {Manager_unregister_interface(W, mac, tag)} :
            Done("unregister_interface", r, NoValue, NoValue)

UpdateLinkSnr ==
    \E link \in Links, tag \in TagsFor(WSERVER_SNR_UPDATE_RESPONSE_TYPE) :
        \E r \in {Manager_update_link_snr(W, link, tag)} :
            Done("update_link_snr", r, NoValue, NoValue)

UpdateLinkErrprob ==
    \E link \in Links, tag \in TagsFor(WSERVER_ERRPROB_UPDATE_RESPONSE_TYPE) :
        \E r \in {Manager_update_link_errprob(W, link, tag)} :
            Done("update_link_errprob", r, NoValue, NoValue)

UpdateLinkSpecprob ==
    \E link \in Links, tag \in TagsFor(WSERVER_SPECPROB_UPDATE_RESPONSE_TYPE) :
        \E r \in {Manager_update_link_specprob(W, link, tag)} :
            Done("update_link_specprob", r, NoValue, NoValue)

\* WmediumdServerConn.send_del_by_id called by the user of the module
SendDelById ==
    \E sta_id \in 0..(Cardinality(MACS) - 1), tag \in TagsFor(WSERVER_DEL_BY_ID_RESPONSE_TYPE) :
        \E r \in {send_del_by_id(W, sta_id, tag)} :
            Done("send_del_by_id", r, r.ret, NoValue)

\* WmediumdServerConn.connect and disconnect called by the user of the module
ConnConnect ==
    \E r \in {ServerConn_connect(W)} : Done("ServerConn.connect", r, NoValue, NoValue)

ConnDisconnect ==
    \E r \in {ServerConn_disconnect(W)} : Done("ServerConn.disconnect", r, NoValue, NoValue)

\* WmediumdStarter.stop and kill_wmediumd called by the user of the module
StarterStop ==
    \E r \in {Starter_stop(W)} : Done("stop", r, NoValue, NoValue)

StarterKill ==
    \E r \in {Starter_kill_wmediumd(W)} : Done("kill_wmediumd", r, NoValue, NoValue)

\* The daemon's server socket appears at the socket path.
EnvSocketReady ==
    /\ procs > 0
    /\ ~sockFile
    /\ sockFile' = TRUE
    /\ UNCHANGED <<is_connected, registered_interfaces, sock, connected, starter, procs,
                   stations, dmode, mine, faultSeen, last, threadVars, codec,
                   stream, mismatch, cl>>

Next ==
    \/ Connect
    \/ Disconnect
    \/ Register
    \/ Unregister
    \/ UpdateLinkSnr
    \/ UpdateLinkErrprob
    \/ UpdateLinkSpecprob
    \/ SendDelById
    \/ ConnConnect
    \/ ConnDisconnect
    \/ StarterStop
    \/ StarterKill
    \/ EnvSocketReady

Spec == Init /\ [][Next]_vars

-----------------------------------------------------------------------------
(* Two callers on the shared connection.  A send method is two steps of its   *)
(* caller: the write of the request (cls.sock.send) and, once the blocking    *)
(* read has data, the rest of the method (__parse_response).  The daemon      *)
(* answers the requests in the order it reads them.                           *)

\* The state after WmediumdManager.connect() has started a daemon and connected.
InitThreads ==
    /\ is_connected = TRUE
    /\ registered_interfaces = <<>>
    /\ sock = "open"
    /\ connected = TRUE
    /\ starter = [is_managed |-> TRUE, is_initialized |-> TRUE, is_connected |-> TRUE,
                  mode |-> WMEDIUMD_MODE_SNR, wmd_process |-> 1, wmd_config |-> TRUE,
                  links_ok |-> TRUE]
    /\ procs = 1
    /\ sockFile = TRUE
    /\ stations = <<>>
    /\ dmode = WMEDIUMD_MODE_SNR
    /\ mine = {}
    /\ faultSeen = FALSE
    /\ cl = NoClients
    /\ mismatch = FALSE
    /\ last = [op |-> "connect", exc |-> "none", code |-> NoValue, ret |-> NoValue,
               idx |-> NoValue,
               pre |-> [registered_interfaces |-> <<>>, sock |-> "none",
                        connected |-> FALSE, is_connected |-> FALSE, stations |-> <<>>,
                        starter |-> [is_managed |-> FALSE, is_initialized |-> FALSE,
                                     is_connected |-> FALSE, mode |-> WMEDIUMD_MODE_SNR,
                                     wmd_process |-> 0, wmd_config |-> FALSE,
                  links_ok |-> TRUE],
                        procs |-> 0, sockFile |-> FALSE, mismatch |-> FALSE],
               wire |-> <<>>]
    /\ pc = [c \in Callers |-> "idle"]
    /\ cur = [c \in Callers |-> NoMsg]
    /\ reqQ = <<>>
    /\ respQ = <<>>
    /\ got = [c \in Callers |-> 0]
    /\ overlapped = [c \in Callers |-> FALSE]
    /\ codec = NoCodec
    /\ stream = NoStream

\* The requests of the send methods a caller runs: send_add and send_del_by_mac
\* of its own interface (caller c has the MAC c) and send_snr_update.
CallerRequests(c) ==
    {create_station_add_request(c), create_station_del_by_mac_request(c)}
        \cup {create_snr_update_request(l) : l \in Links}

\* cls.sock.recv(size) on a socket no timeout was set on: it blocks while there
\* is nothing to read.
sock_recv(w) == IF w.respQ = <<>> THEN "block" ELSE "data"

\* Caller c enters a send method and writes its request.
CallSend(c) ==
    /\ pc[c] = "idle"
    /\ \E req \in CallerRequests(c) :
          \E s \in {sock_send(W, [req EXCEPT !.owner = c])} :
              /\ s.exc = "none"
              /\ \E w \in {s.w} : Commit(w)
              /\ cur' = [cur EXCEPT ![c] = req]
    /\ pc' = [pc EXCEPT ![c] = "waiting"]
    /\ got' = [got EXCEPT ![c] = 0]
    /\ overlapped' = [d \in Callers |->
                          IF d = c THEN \E e \in Callers \ {c} : pc[e] = "waiting"
                          ELSE overlapped[d] \/ pc[d] = "waiting"]
    /\ UNCHANGED <<last, codec, stream, mismatch, cl>>

\* The daemon reads a request and answers it.
DaemonRespond ==
    /\ reqQ # <<>>
    /\ \E w \in {DaemonServe(W, Head(reqQ).type + 1)} : Commit(w)
    /\ UNCHANGED <<last, pc, cur, got, overlapped, codec, stream, mismatch, cl>>

\* Caller c's blocking read returns and the send method runs to its end.
CallRecv(c) ==
    /\ pc[c] = "waiting"
    /\ sock_recv(W) = "data"
    /\ \E r \in {parse_response(W, cur[c].type + 1)} :
          /\ \E w \in {r.w} : Commit(w)
          /\ got' = [got EXCEPT ![c] = Head(respQ).owner]
          /\ last' = [op |-> "send", exc |-> r.exc, code |-> r.code,
                      ret |-> IF r.exc = "none" THEN r.ret.status ELSE NoValue,
                      idx |-> IF r.exc = "none" THEN r.ret.index ELSE NoValue,
                      pre |-> Pre, wire |-> r.w.wire]
    /\ pc' = [pc EXCEPT ![c] = "idle"]
    /\ UNCHANGED <<cur, overlapped, codec, stream, mismatch, cl>>

NextThreads ==
    \/ \E c \in Callers : CallSend(c)
    \/ DaemonRespond
    \/ \E c \in Callers : CallRecv(c)

\* A caller whose read has data again and again gets to read it in the end;
\* nothing makes the daemon answer.
SpecThreads ==
    InitThreads /\ [][NextThreads]_vars /\ \A c \in Callers : SF_vars(CallRecv(c))

-----------------------------------------------------------------------------
(* The encoders on their own: every step encodes one request (or converts one  *)
(* value) for arguments of the caller's choice.                               *)

\* The longest MAC string has this many hex digits.
MaxMacDigits == 14

\* k hex digits: "123456789abcdef0..."
Digits(k) == [i \in 1..k |-> i % 16]

\* k digit pairs with colons between them: "12:34:56:..."
WithColons(k) == [j \in 1..(3 * k - 1) |-> IF j % 3 = 0 THEN Colon ELSE (j - j \div 3) % 16]

\* "12:34:56:78:9a:bc"
GoodMac == WithColons(6)

\* MAC strings of 0 to MaxMacDigits hex digits, with and without colons, and
\* strings of twelve characters one of which is no hex digit.
MacStrings ==
    {Digits(k) : k \in 0..MaxMacDigits}
        \cup {WithColons(k) : k \in 1..(MaxMacDigits \div 2)}
        \cup {[Digits(12) EXCEPT ![i] = NonHex] : i \in 1..12}

\* The numerators of the values converted: -2 to 3 in steps of 2^-FracBits
FixedInputs == (0 - 2 * Scale)..(3 * Scale)

InitCodec ==
    /\ is_connected = FALSE
    /\ registered_interfaces = <<>>
    /\ sock = "none"
    /\ connected = FALSE
    /\ starter = [is_managed |-> FALSE, is_initialized |-> FALSE, is_connected |-> FALSE,
                  mode |-> WMEDIUMD_MODE_SNR, wmd_process |-> 0, wmd_config |-> FALSE,
                  links_ok |-> TRUE]
    /\ procs = 0
    /\ sockFile = FALSE
    /\ stations = <<>>
    /\ dmode = WMEDIUMD_MODE_SNR
    /\ mine = {}
    /\ faultSeen = FALSE
    /\ cl = NoClients
    /\ mismatch = FALSE
    /\ last = [op |-> "init", exc |-> "none", code |-> NoValue, ret |-> NoValue,
               idx |-> NoValue, pre |-> Pre, wire |-> <<>>]
    /\ pc = [c \in Callers |-> "idle"]
    /\ cur = [c \in Callers |-> NoMsg]
    /\ reqQ = <<>>
    /\ respQ = <<>>
    /\ got = [c \in Callers |-> 0]
    /\ overlapped = [c \in Callers |-> FALSE]
    /\ codec = NoCodec
    /\ stream = NoStream

programVars == <<is_connected, registered_interfaces, sock, connected, starter, procs,
                 sockFile, stations, dmode, mine, faultSeen, last, threadVars, mismatch,
                 cl>>

\* The encoder op was run on these arguments and ended as r says.
EncodeDone(op, mac, to, value, r) ==
    /\ codec' = [op |-> op, mac |-> mac, to |-> to, value |-> value,
                 exc |-> r.exc, out |-> r.out, fixed |-> NoValue]
    /\ UNCHANGED <<programVars, stream>>

PackAdd ==
    \E mac \in MacStrings :
        \E r \in {pack_station_add_request(mac)} : EncodeDone("add", mac, <<>>, NoValue, r)

PackDelByMac ==
    \E mac \in MacStrings :
        \E r \in {pack_station_del_by_mac_request(mac)} :
            EncodeDone("del_by_mac", mac, <<>>, NoValue, r)

PackDelById ==
    \E sta_id \in 0..1 :
        \E r \in {pack_station_del_by_id_request(sta_id)} :
            EncodeDone("del_by_id", <<>>, <<>>, sta_id, r)

PackSnr ==
    \E from \in MacStrings, to \in {GoodMac, Digits(13)}, snr \in {0 - 10, 5} :
        \E r \in {pack_snr_update_request([from |-> from, to |-> to, value |-> snr])} :
            EncodeDone("snr", from, to, snr, r)

PackErrprob ==
    \E from \in {GoodMac, Digits(10)}, to \in {GoodMac}, n \in FixedInputs :
        \E r \in {pack_errprob_update_request([from |-> from, to |-> to, value |-> n])} :
            EncodeDone("errprob", from, to, n, r)

PackSpecprob ==
    \E from \in {GoodMac}, to \in {GoodMac, Digits(14)}, n \in FixedInputs :
        \E r \in {pack_specprob_update_request([from |-> from, to |-> to, value |-> n])} :
            EncodeDone("specprob", from, to, n, r)

\* __conv_float_to_fixed_point on its own
ConvFloat ==
    /\ \E n \in FixedInputs :
          codec' = [NoCodec EXCEPT !.op = "conv_float_to_fixed_point", !.value = n,
                                   !.fixed = conv_float_to_fixed_point(n)]
    /\ UNCHANGED <<programVars, stream>>

NextCodec ==
    \/ PackAdd
    \/ PackDelByMac
    \/ PackDelById
    \/ PackSnr
    \/ PackErrprob
    \/ PackSpecprob
    \/ ConvFloat

SpecCodec == InitCodec /\ [][NextCodec]_vars

-----------------------------------------------------------------------------
(* One caller on the connection, the responses as bytes of the stream.  The  *)
(* daemon writes a response whole; the socket hands its bytes to the client  *)
(* in pieces of any length, and a recv returns what has arrived.             *)

\* The calls followed: a call is not started while the daemon has a request to
\* answer or more than this many bytes are unread.
MaxUnread == 6

\* The requests of the send methods the caller runs: send_add and
\* send_del_by_id.
StreamRequests ==
    {create_station_add_request(mac) : mac \in MACS}
        \cup {create_station_del_by_id_request(0)}

\* The caller enters a send method and writes its request.
StreamSend ==
    /\ stream.pc = "idle"
    /\ reqQ = <<>>
    /\ Len(stream.net) + Len(stream.buf) <= MaxUnread
    /\ \E req \in StreamRequests :
          \E s \in {sock_send(W, req)} :
              /\ s.exc = "none"
              /\ \E w \in {s.w} : Commit(w)
              /\ stream' = [stream EXCEPT !.pc = "waiting", !.op = "send",
                                          !.expected = req.type + 1]
    /\ UNCHANGED <<last, pc, cur, got, overlapped, codec, mismatch, cl>>

\* The daemon reads the request and writes the bytes of its response.
StreamRespond ==
    /\ reqQ # <<>>
    /\ \E w \in {DaemonServe(W, Head(reqQ).type + 1)} :
          /\ Commit([w EXCEPT !.respQ = <<>>])
          /\ stream' = [stream EXCEPT
                            !.net = @ \o Marked(DaemonBytes(Head(reqQ), Head(w.respQ)))]
    /\ UNCHANGED <<last, pc, cur, got, overlapped, codec, mismatch, cl>>

\* Some of the bytes on their way arrive at the client's socket.
StreamDeliver ==
    /\ \E k \in 1..Len(stream.net) :
          stream' = [stream EXCEPT !.net = SubSeq(@, k + 1, Len(@)),
                                   !.buf = @ \o SubSeq(stream.net, 1, k)]
    /\ UNCHANGED <<programVars, codec>>

\* recvd_data = cls.sock.recv(resp_struct.size) returns, and __parse_response
\* and the send method run to their end.
StreamRecv ==
    /\ stream.pc = "waiting"
    /\ stream.buf # <<>>
    /\ \E data \in {sock_recv_bytes(stream.buf, calcsize(ResponseFmt(stream.expected)))} :
          \E r \in {parse_bytes(Values(data), stream.expected,
                                ResponseFmt(stream.expected))} :
              stream' = [stream EXCEPT !.pc = "idle", !.op = "recv",
                                       !.buf = SubSeq(@, Len(data) + 1, Len(@)),
                                       !.data = data, !.exc = r.exc,
                                       !.status = r.status, !.index = r.index]
    /\ UNCHANGED <<programVars, codec>>

NextStream ==
    \/ StreamSend
    \/ StreamRespond
    \/ StreamDeliver
    \/ StreamRecv

SpecStream == InitThreads /\ [][NextStream]_vars

-----------------------------------------------------------------------------
(* Two client processes in WmediumdManager.connect.  The processes share the  *)
(* machine - the process table and the socket path - and nothing else.  A     *)
(* connect is three steps of its process: the look for a running daemon, the  *)
(* start of one, the connection to the server socket.                         *)

\* The world of process p: its own attributes, the machine it shares.
ClientW(p) ==
    [W EXCEPT !.is_connected = cl[p].is_connected, !.sock = cl[p].sock,
              !.connected = cl[p].connected, !.starter = cl[p].starter]

\* Process p, in connect(mode=mode), has run a step that left the world w; it
\* is at pos now.
ClientDone(p, w, pos, exc, mode) ==
    /\ cl' = [cl EXCEPT ![p].pc = pos, ![p].exc = exc, ![p].mode = mode,
                        ![p].is_connected = w.is_connected, ![p].sock = w.sock,
                        ![p].connected = w.connected, ![p].starter = w.starter]
    /\ procs' = w.procs
    /\ sockFile' = w.sockFile
    /\ dmode' = w.dmode
    /\ stations' = w.stations
    /\ mine' = w.mine
    /\ UNCHANGED <<is_connected, registered_interfaces, sock, connected, starter,
                   faultSeen, last, threadVars, codec, stream, mismatch>>

\* pgrep -x wmediumd | wc -l, and the test of the socket path when a daemon
\* was found
ClientDetect(p) ==
    /\ cl[p].pc = "idle"
    /\ \E mode \in Modes :
          \E w \in {ClientW(p)} :
              ClientDone(p, w,
                         IF w.procs > 0 THEN (IF w.sockFile THEN "connect" ELSE "done")
                         ELSE "start",
                         IF w.procs > 0 /\ ~w.sockFile THEN "NoServer" ELSE "none",
                         mode)

\* if not is_started: initialize(mode=mode), start_managed(), time.sleep(1)
ClientStart(p) ==
    /\ cl[p].pc = "start"
    /\ \E r \in {Try(Starter_initialize(ClientW(p), cl[p].mode),
                     LAMBDA i : Starter_start_managed(i.w, FALSE))} :
          ClientDone(p, r.w, IF r.exc = "none" THEN "connect" ELSE "done", r.exc,
                     cl[p].mode)

\* WmediumdServerConn.connect(uds_address); cls.is_connected = True
ClientConnect(p) ==
    /\ cl[p].pc = "connect"
    /\ \E r \in {Try(ServerConn_connect(ClientW(p)),
                     LAMBDA c : Returned([c.w EXCEPT !.is_connected = TRUE], NoValue))} :
          ClientDone(p, r.w, "done", r.exc, cl[p].mode)

NextProcs ==
    \/ \E p \in Clients : ClientDetect(p)
    \/ \E p \in Clients : ClientStart(p)
    \/ \E p \in Clients : ClientConnect(p)
    \/ EnvSocketReady

\* No daemon runs and no client is connected when the two processes begin.
InitProcs == InitCodec

SpecProcs == InitProcs /\ [][NextProcs]_vars

-----------------------------------------------------------------------------
(* WmediumdStarter used on its own: initialize, start, start_managed, stop    *)
(* and kill_wmediumd called by the user of the module, in any order.          *)

StarterInitialize ==
    \E mode \in Modes, links_ok \in BOOLEAN :
        \E r \in {Starter_initialize_links(W, mode, links_ok)} :
            Done("initialize", r, NoValue, mode)

StarterStart ==
    \E ready \in BOOLEAN :
        \E r \in {Starter_start(W, ready)} : Done("start", r, NoValue, NoValue)

StarterStartManaged ==
    \E ready \in BOOLEAN :
        \E r \in {Starter_start_managed(W, ready)} :
            Done("start_managed", r, NoValue, NoValue)

NextStarter ==
    \/ StarterInitialize
    \/ StarterStart
    \/ StarterStartManaged
    \/ StarterStop
    \/ StarterKill
    \/ EnvSocketReady

SpecStarter == InitProcs /\ [][NextStarter]_vars

\* WmediumdManager used on its own: no call of WmediumdServerConn or
\* WmediumdStarter by the user of the module.
NextManager ==
    \/ Connect
    \/ Disconnect
    \/ Register
    \/ Unregister
    \/ UpdateLinkSnr
    \/ UpdateLinkErrprob
    \/ UpdateLinkSpecprob
    \/ EnvSocketReady

SpecManager == Init /\ [][NextManager]_vars

-----------------------------------------------------------------------------
(* What the last call put on the wire *)

Sends == SelectSeq(last.wire, LAMBDA e : e.ev = "send")

Recvs == SelectSeq(last.wire, LAMBDA e : e.ev = "recv")

\* The last call wrote one request and read the response to it.
Answered == Len(last.wire) = 2 /\ last.wire[1].ev = "send" /\ last.wire[2].ev = "recv"

TheRequest == last.wire[1].msg

TheResponse == last.wire[2].msg

\* The response type paired with each request type (section 6).
PairedResponse(type) ==
    CASE type = 1 -> 2
      [] type = 3 -> 4
      [] type = 5 -> 6
      [] type = 7 -> 8
      [] type = 9 -> 10
      [] type = 11 -> 12

\* The client's connection state is what it was when the call started.
ConnectionUnchanged ==
    /\ sock = last.pre.sock
    /\ connected = last.pre.connected
    /\ is_connected = last.pre.is_connected

RegistryUnchanged == registered_interfaces = last.pre.registered_interfaces

\* s without its first x (s itself when it holds no x)
RemoveFirst(s, x) == IF x \in Range(s) THEN RemoveAt(s, IndexOf(s, x)) ELSE s

-----------------------------------------------------------------------------
(* C1 - C10 *)

\* C1: register_interface(mac) appends mac to registered_interfaces and returns
\* the station index of the Add response exactly when the daemon answers with an
\* Add response of status success; on any other status it raises and leaves
\* registered_interfaces and the connection state as they were.
C1_RegisterOnSuccessOnly ==
    last.op = "register_interface" =>
        LET ok == Answered /\ TheResponse.type = WSERVER_ADD_RESPONSE_TYPE
                           /\ TheResponse.status = WUPDATE_SUCCESS
        IN /\ (last.exc = "none") <=> ok
           /\ ok => /\ registered_interfaces
                         = Append(last.pre.registered_interfaces, TheRequest.mac)
                    /\ last.ret = TheResponse.index
                    /\ ConnectionUnchanged
           /\ ~ok => RegistryUnchanged /\ ConnectionUnchanged /\ last.ret = NoValue
           /\ (Answered /\ TheResponse.status # WUPDATE_SUCCESS) => last.exc # "none"

\* A second interface has been registered: the daemon answered success, index 1.
C1_Witness ==
    /\ last.op = "register_interface"
    /\ last.exc = "none"
    /\ last.ret = 1
    /\ Len(registered_interfaces) = 2

\* C2: unregister_interface(mac) removes mac from registered_interfaces when the
\* daemon answers success; a MAC that is not registered at the daemon is answered
\* with interface-not-found (1), which is raised with that code, and
\* registered_interfaces stays as it was.
C2_UnregisterOrReject ==
    (last.op = "unregister_interface" /\ Answered) =>
        /\ (TheResponse.type = WSERVER_DEL_BY_MAC_RESPONSE_TYPE
               /\ TheResponse.status = WUPDATE_SUCCESS)
             => /\ registered_interfaces
                     = RemoveFirst(last.pre.registered_interfaces, TheRequest.mac)
                /\ last.exc \in {"none", "ValueError"}
                /\ (last.exc = "none") <=> (TheRequest.mac \in Range(last.pre.registered_interfaces))
        /\ TheRequest.mac \notin Range(last.pre.stations)
             => /\ TheResponse.status = WUPDATE_INTF_NOTFOUND
                /\ last.exc \in {"ErrorCode", "UnknownType"}
                /\ (TheResponse.type = WSERVER_DEL_BY_MAC_RESPONSE_TYPE)
                     => (last.exc = "ErrorCode" /\ last.code = WUPDATE_INTF_NOTFOUND)
                /\ RegistryUnchanged

\* An unregister of a MAC that is neither at the daemon nor in the list any more
\* (a second unregister) was rejected with code 1.
C2_Witness ==
    /\ last.op = "unregister_interface"
    /\ Answered
    /\ last.exc = "ErrorCode"
    /\ last.code = WUPDATE_INTF_NOTFOUND
    /\ TheRequest.mac \notin Range(last.pre.stations)
    /\ TheRequest.mac \notin Range(last.pre.registered_interfaces)
    /\ last.pre.stations # <<>>

\* The disconnect call started on an open connection, manager and server
\* connection both Connected.
DisconnectWhileConnected ==
    /\ last.op = "disconnect"
    /\ last.pre.is_connected
    /\ last.pre.connected
    /\ last.pre.sock = "open"

\* Every response the call read was a Delete-by-MAC response of status success.
AllAccepted ==
    \A i \in 1..Len(Recvs) :
        /\ Recvs[i].msg.type = WSERVER_DEL_BY_MAC_RESPONSE_TYPE
        /\ Recvs[i].msg.status = WUPDATE_SUCCESS

\* The first k requests of the call are the Delete-by-MAC requests for the first
\* k MACs of the list the call started with, each followed by the read of a
\* response.
DeletesInOrder(k) ==
    \A i \in 1..k :
        /\ last.wire[2 * i - 1]
             = Ev("send", create_station_del_by_mac_request(last.pre.registered_interfaces[i]))
        /\ last.wire[2 * i].ev = "recv"

\* C3: disconnect, called while connected with n registered interfaces and every
\* delete accepted, writes exactly n Delete-by-MAC requests, one per registered
\* MAC in registration order, then closes the socket; afterwards
\* registered_interfaces is empty, the socket is closed and manager and server
\* connection are Disconnected.
C3_CleanDisconnect ==
    (DisconnectWhileConnected /\ AllAccepted) =>
        LET n == Len(last.pre.registered_interfaces)
        IN /\ Len(last.wire) = 2 * n + 1
           /\ DeletesInOrder(n)
           /\ last.wire[2 * n + 1].ev = "close"
           /\ last.exc = "none"
           /\ registered_interfaces = <<>>
           /\ sock = "closed"
           /\ ~connected
           /\ ~is_connected

\* A disconnect with two different registered interfaces has returned.
C3_Witness ==
    /\ DisconnectWhileConnected
    /\ last.exc = "none"
    /\ Len(last.pre.registered_interfaces) = 2
    /\ last.pre.registered_interfaces[1] # last.pre.registered_interfaces[2]

\* C4 as claimed: when the daemon rejects an unregistration during disconnect, a
\* delete request is still written for every registered interface and the
\* connection is then closed.
C4_BestEffortDisconnect ==
    (DisconnectWhileConnected /\ Recvs # <<>> /\ ~AllAccepted /\ ~faultSeen) =>
        /\ Len(Sends) = Len(last.pre.registered_interfaces)
        /\ last.wire[Len(last.wire)].ev = "close"
        /\ sock = "closed"

\* C4 as the code has it: the first failed unregistration ends disconnect at
\* once.  With the k-th response the failing one, exactly the first k delete
\* requests were written, the socket was not closed, the failure of the k-th
\* is what the caller gets, the k-th and the later MACs are still in
\* registered_interfaces, and manager and server connection stay Connected.
C4_AbortsOnFirstFailure ==
    (DisconnectWhileConnected /\ Recvs # <<>> /\ ~AllAccepted) =>
        LET k == Len(Recvs)
            n == Len(last.pre.registered_interfaces)
        IN /\ Len(last.wire) = 2 * k
           /\ k <= n
           /\ DeletesInOrder(k)
           /\ \A i \in 1..(k - 1) : Recvs[i].msg.status = WUPDATE_SUCCESS
           /\ last.exc \in {"ErrorCode", "UnknownType"}
           /\ (last.exc = "ErrorCode") => last.code = Recvs[k].msg.status
           /\ registered_interfaces = SubSeq(last.pre.registered_interfaces, k, n)
           /\ ConnectionUnchanged
           /\ sock = "open"

\* The unregistration of the first of two registered interfaces failed: the
\* second was never attempted.
C4_Witness ==
    /\ DisconnectWhileConnected
    /\ last.exc = "ErrorCode"
    /\ Len(last.pre.registered_interfaces) = 2
    /\ Len(Recvs) = 1
    /\ Len(registered_interfaces) = 2

FiveOperations ==
    {"register_interface", "unregister_interface", "update_link_snr",
     "update_link_errprob", "update_link_specprob"}

\* C5: for register_interface, unregister_interface and the three update_link
\* operations a response (of the expected type) with a status other than
\* success is raised to the caller with that status code, and the operation
\* returns normally only when the status is success.
C5_StatusSurfaced ==
    last.op \in FiveOperations =>
        /\ (Answered /\ TheResponse.type = PairedResponse(TheRequest.type)
               /\ TheResponse.status # WUPDATE_SUCCESS)
             => (last.exc = "ErrorCode" /\ last.code = TheResponse.status)
        /\ (last.exc = "none")
             => (Answered /\ TheResponse.status = WUPDATE_SUCCESS)
        /\ (last.exc = "ErrorCode")
             => (Answered /\ last.code = TheResponse.status /\ last.code # WUPDATE_SUCCESS)

\* An update was answered wrong-mode (3) and raised with code 3.
C5_Witness ==
    /\ last.op = "update_link_errprob"
    /\ Answered
    /\ last.exc = "ErrorCode"
    /\ last.code = WUPDATE_WRONG_MODE

\* C6: a response whose tag is not the one paired with the request's raises the
\* unknown-type failure, returns no status and no station index and leaves
\* registered_interfaces alone; a response with the paired tag never does.
C6_TagChecked ==
    \A i \in 1..Len(last.wire) :
        last.wire[i].ev = "recv" =>
            IF last.wire[i].msg.type # PairedResponse(last.wire[i - 1].msg.type)
            THEN /\ i = Len(last.wire)
                 /\ last.exc = "UnknownType"
                 /\ last.ret = NoValue
                 /\ last.idx = NoValue
                 /\ (last.op # "disconnect") => RegistryUnchanged
            ELSE (i = Len(last.wire)) => last.exc # "UnknownType"

\* A call of send_del_by_id read a response with a foreign tag.
C6_Witness ==
    /\ last.op = "send_del_by_id"
    /\ Answered
    /\ TheResponse.type # WSERVER_DEL_BY_ID_RESPONSE_TYPE
    /\ last.exc = "UnknownType"

OperationsOtherThanConnect ==
    {"disconnect", "register_interface", "unregister_interface", "update_link_snr",
     "update_link_errprob", "update_link_specprob", "send_del_by_id",
     "ServerConn.disconnect"}

\* C7 as claimed: in the Disconnected state every operation other than connect
\* fails with the not-connected failure, writes nothing and changes nothing.
C7_NotConnectedRaised ==
    (last.op \in OperationsOtherThanConnect
        /\ ~last.pre.is_connected /\ ~last.pre.connected) =>
        /\ last.exc = "NotConnected"
        /\ last.wire = <<>>
        /\ RegistryUnchanged
        /\ ConnectionUnchanged

\* register_interface on a connection that was closed by disconnect: the write
\* on the closed socket fails with the socket's own error.
C7_Witness ==
    /\ last.op = "register_interface"
    /\ ~last.pre.is_connected /\ ~last.pre.connected /\ last.pre.sock = "closed"
    /\ last.exc = "SocketError"
    /\ last.wire = <<>>

\* C10 as claimed: registered_interfaces holds exactly the MACs this client
\* added at the daemon and that are still registered there (as long as every
\* response carried the expected tag).
C10_RegistryMatchesDaemon ==
    ~faultSeen => Range(registered_interfaces) = mine

\* A delete by index the daemon accepted, of an interface this client had
\* registered: the MAC is still in registered_interfaces.
C10_Witness ==
    /\ last.op = "send_del_by_id" /\ last.exc = "none" /\ last.ret = WUPDATE_SUCCESS
    /\ ~faultSeen
    /\ RegistryUnchanged
    /\ \E mac \in Range(registered_interfaces) :
          mac \in Range(last.pre.stations) /\ mac \notin Range(stations)

-----------------------------------------------------------------------------
(* C11 - C15, C20 *)

NoDuplicates(macs) == \A i, j \in 1..Len(macs) : macs[i] = macs[j] => i = j

\* C11 as claimed: registered_interfaces holds each MAC at most once, whatever
\* the sequence of operations (every response carrying the expected tag).
C11_RegisteredAtMostOnce ==
    ~faultSeen => NoDuplicates(registered_interfaces)

\* A register_interface the daemon accepted, of a MAC that was in
\* registered_interfaces already.
C11_Witness ==
    /\ last.op = "register_interface" /\ last.exc = "none" /\ ~faultSeen
    /\ Answered /\ TheResponse.status = WUPDATE_SUCCESS
    /\ TheRequest.mac \in Range(last.pre.registered_interfaces)
    /\ ~NoDuplicates(registered_interfaces)

UpdateOperations == {"update_link_snr", "update_link_errprob", "update_link_specprob"}

UpdateRequestType(op) ==
    CASE op = "update_link_snr" -> WSERVER_SNR_UPDATE_REQUEST_TYPE
      [] op = "update_link_errprob" -> WSERVER_ERRPROB_UPDATE_REQUEST_TYPE
      [] OTHER -> WSERVER_SPECPROB_UPDATE_REQUEST_TYPE

StarterUnchanged == starter = last.pre.starter /\ procs = last.pre.procs

\* C12: an update_link operation, whether it returns or raises, leaves
\* registered_interfaces, the connection state and the starter state as they
\* were, never closes the socket, and writes only update requests of its own
\* kind: exactly one on an open connection (none when there is no open socket
\* to write to).
C12_UpdateHasNoOtherEffect ==
    (last.op \in UpdateOperations) =>
        /\ RegistryUnchanged
        /\ ConnectionUnchanged
        /\ StarterUnchanged
        /\ \A i \in 1..Len(last.wire) : last.wire[i].ev \in {"send", "recv"}
        /\ \A i \in 1..Len(Sends) : Sends[i].msg.type = UpdateRequestType(last.op)
        /\ Len(Sends) = (IF last.pre.sock = "open" THEN 1 ELSE 0)

\* An ErrProb update the daemon rejected, with an interface registered.
C12_Witness ==
    /\ last.op = "update_link_errprob" /\ last.exc = "ErrorCode"
    /\ Len(Sends) = 1
    /\ registered_interfaces # <<>>

\* C13: connect with a daemon process running and no socket file at the path
\* raises the "already started but without server" failure; no daemon is
\* started, the starter is not touched, no socket is created, nothing is
\* written and the manager's and the server connection's state stay as they
\* were.
C13_NoServerIsFatal ==
    (last.op = "connect" /\ last.pre.procs > 0 /\ ~last.pre.sockFile) =>
        /\ last.exc = "NoServer"
        /\ StarterUnchanged
        /\ ConnectionUnchanged
        /\ RegistryUnchanged
        /\ last.wire = <<>>

\* connect found a daemon without socket and left the manager Disconnected.
C13_Witness ==
    /\ last.op = "connect" /\ last.pre.procs > 0 /\ ~last.pre.sockFile
    /\ last.exc = "NoServer"
    /\ ~is_connected /\ sock = "none"

DaemonStarted == procs > last.pre.procs

C15_AlreadyConnected ==
    (last.op = "ServerConn.connect" /\ last.pre.connected) =>
        /\ last.exc = "AlreadyConnected"
        /\ sock = "open" /\ last.pre.sock = "open"
        /\ ConnectionUnchanged
        /\ last.wire = <<>>
        /\ reqQ = <<>> /\ respQ = <<>>

\* The second connect on a connection with an interface registered over it.
C15_Witness ==
    /\ last.op = "ServerConn.connect" /\ last.pre.connected
    /\ last.exc = "AlreadyConnected"
    /\ registered_interfaces # <<>>

\* C20: once start_managed has set is_managed, stop() and kill_wmediumd() return
\* without an effect - the daemon process is not signalled (none goes away),
\* its config file stays and the starter's attributes, is_connected among
\* them, are as before - and no later call of any operation resets is_managed,
\* ends the daemon or removes the config.
C20_ManagedDaemonKept ==
    last.pre.starter.is_managed =>
        /\ starter.is_managed
        /\ procs >= last.pre.procs
        /\ last.pre.starter.wmd_config => starter.wmd_config
        /\ last.pre.starter.is_connected => starter.is_connected
        /\ (last.op \in {"stop", "kill_wmediumd"}) =>
              /\ last.exc = "none"
              /\ StarterUnchanged
              /\ ConnectionUnchanged
              /\ last.wire = <<>>

\* stop() on the starter of a running managed daemon
C20_Witness ==
    /\ last.op = "stop" /\ last.pre.starter.is_managed
    /\ last.pre.starter.is_connected /\ last.pre.starter.wmd_config
    /\ procs = 1 /\ starter.is_connected /\ starter.wmd_config

-----------------------------------------------------------------------------
(* C16 - C19: the encoders (SpecCodec) *)

MacOperations == {"add", "del_by_mac", "snr", "errprob", "specprob"}

\* The string reduces to exactly twelve hex digits once the colons are taken out.
WellFormed(mac) ==
    /\ Len(replace_colons(mac)) = 12
    /\ \A i \in 1..Len(replace_colons(mac)) : IsHexDigit(replace_colons(mac)[i])

\* The six bytes twelve hex digits stand for
HexPairs(s) == [i \in 1..6 |-> 16 * s[2 * i - 1] + s[2 * i]]

\* C16 as claimed: a request with a MAC string that does not reduce to twelve
\* hex digits is not encoded - the encoder fails and there is nothing to send -
\* and a well-formed MAC is on the wire as the six bytes of its digit pairs.
C16_MalformedMacRejected ==
    (codec.op \in MacOperations) =>
        /\ (~WellFormed(codec.mac) \/ (codec.to # <<>> /\ ~WellFormed(codec.to))) =>
              (codec.exc # "none" /\ codec.out = <<>>)
        /\ (WellFormed(codec.mac) /\ codec.exc = "none") =>
              SubSeq(codec.out, 2, 7) = HexPairs(replace_colons(codec.mac))

\* An Add request for a MAC string of ten hex digits: encoded, the sixth byte
\* of the address a null byte that is not in the string.
C16_Witness ==
    /\ codec.op = "add" /\ codec.mac = Digits(10)
    /\ codec.exc = "none"
    /\ Len(codec.out) = 7 /\ codec.out[7] = 0

PackOperations == MacOperations \cup {"del_by_id"}

\* The request lengths of the table of section 6: the tag byte and the payload
TableLength(op) ==
    CASE op = "snr" -> 1 + 6 + 6 + 4
      [] op = "del_by_mac" -> 1 + 6
      [] op = "del_by_id" -> 1 + 4
      [] op = "add" -> 1 + 6
      [] op = "errprob" -> 1 + 6 + 6 + 4
      [] OTHER -> 1 + 6 + 6 + 144 * 4

RequestTag(op) ==
    CASE op = "snr" -> WSERVER_SNR_UPDATE_REQUEST_TYPE
      [] op = "del_by_mac" -> WSERVER_DEL_BY_MAC_REQUEST_TYPE
      [] op = "del_by_id" -> WSERVER_DEL_BY_ID_REQUEST_TYPE
      [] op = "add" -> WSERVER_ADD_REQUEST_TYPE
      [] op = "errprob" -> WSERVER_ERRPROB_UPDATE_REQUEST_TYPE
      [] OTHER -> WSERVER_SPECPROB_UPDATE_REQUEST_TYPE

\* The bytes of a SpecProb request after the tag and the two addresses
SpecprobValueBytes == Len(codec.out) - (1 + 6 + 6)

\* C17 as claimed: every encoded request has the length of the table, and the
\* 144 values of a SpecProb request take 600 bytes.
C17_LengthsWith600ByteSpecprob ==
    (codec.op \in PackOperations /\ codec.exc = "none") =>
        /\ Len(codec.out) = TableLength(codec.op)
        /\ (codec.op = "specprob") => SpecprobValueBytes = 600

\* C17 as the code has it: every encoded request starts with its tag and has the
\* length of the table; the 144 values of a SpecProb request take 144 * 4 = 576
\* bytes, the request 589.
C17_LengthsMatchTable ==
    (codec.op \in PackOperations /\ codec.exc = "none") =>
        /\ Len(codec.out) = TableLength(codec.op)
        /\ codec.out[1] = RequestTag(codec.op)
        /\ (codec.op = "specprob") =>
              (SpecprobValueBytes = 576 /\ Len(codec.out) = 589)

\* A SpecProb request was encoded.
C17_Witness ==
    /\ codec.op = "specprob" /\ codec.exc = "none"
    /\ Len(codec.out) = 589
    /\ codec.mac = GoodMac /\ codec.to = GoodMac

\* The value the encoder of section 4 gives for d = n / Scale: the integer part
\* shifted, plus the fraction scaled and cut, within 32 bits.
SpecEncode(n) == c_int32(Trunc(n, Scale) * Scale + (n - Trunc(n, Scale) * Scale))

UnitInterval == {n \in FixedInputs : 0 <= n /\ n < Scale}

\* C18 as claimed: the conversion gives (int(d) << 31) + int(fraction * 2^31)
\* within 32 bits; on [0, 1) that is int(d * 2^31), never negative and never
\* decreasing as d grows.
C18_FixedPointValue ==
    (codec.op = "conv_float_to_fixed_point") =>
        /\ codec.fixed = SpecEncode(codec.value)
        /\ (codec.value \in UnitInterval) =>
              /\ codec.fixed = codec.value
              /\ codec.fixed >= 0
              /\ \A a \in UnitInterval :
                    a <= codec.value => conv_float_to_fixed_point(a) <= codec.fixed

\* C18 as the code has it: one_shifted is 1 << 31 reduced to 32 bits, which is
\* -2^31, so the fraction is scaled by -2^31; the sum is not reduced again.  On
\* [0, 1) the result is -int(d * 2^31): never positive, never increasing.
C18_FractionScaledNegative ==
    (codec.op = "conv_float_to_fixed_point") =>
        /\ codec.fixed = c_int32(Trunc(codec.value, Scale) * Scale)
                             - (codec.value - Trunc(codec.value, Scale) * Scale)
        /\ (codec.value \in UnitInterval) =>
              /\ codec.fixed = 0 - codec.value
              /\ \A a \in UnitInterval :
                    a <= codec.value => conv_float_to_fixed_point(a) >= codec.fixed

\* 0.5 was converted: the result is -2^30.
C18_Witness ==
    /\ codec.op = "conv_float_to_fixed_point"
    /\ 2 * codec.value = Scale
    /\ 2 * codec.fixed = 0 - Scale

\* encoded / 2^31, as a numerator over Scale
Decode(e) == e

AbsDiff(a, b) == IF a >= b THEN a - b ELSE b - a

\* C19 as claimed: for f in [0, 1) the decoded result of the conversion is
\* within 2^-31 of f.  The values here are 2^-FracBits apart, so two of them
\* that are within 2^-31 of each other are equal.
C19_RoundTripWithinTolerance ==
    (codec.op = "conv_float_to_fixed_point" /\ codec.value \in UnitInterval) =>
        AbsDiff(Decode(codec.fixed), codec.value) < 1

\* The smallest positive input was converted: the result decodes to its
\* negative.
C19_Witness ==
    /\ codec.op = "conv_float_to_fixed_point"
    /\ codec.value = 1
    /\ Decode(codec.fixed) = 0 - 1

-----------------------------------------------------------------------------
(* Two callers on the shared connection (SpecThreads) *)

Waiting == {c \in Callers : pc[c] = "waiting"}

InFlight == reqQ \o respQ

\* C8 as claimed: one request is in flight at a time - a second caller does not
\* write its request while another caller waits for a response - and a caller
\* reads only the response to its own request.
C8_OneInFlight ==
    /\ Cardinality(Waiting) <= 1
    /\ \A c \in Callers : got[c] \in {0, c}

\* What the send methods do give: nothing in a send method keeps a second caller from
\* writing, so every waiting caller has one message in flight; a caller whose
\* call did not overlap another's has its own message in flight alone and
\* decodes the response to its own request.
C8_OneInFlightWhenCallsDoNotOverlap ==
    /\ Len(InFlight) = Cardinality(Waiting)
    /\ \A c \in Callers :
          (pc[c] = "waiting" /\ ~overlapped[c]) =>
              (Len(InFlight) = 1 /\ InFlight[1].owner = c)
    /\ \A c \in Callers :
          (pc[c] = "idle" /\ got[c] # 0 /\ ~overlapped[c]) => got[c] = c

\* Both callers wrote before either read, and a caller decoded the response to
\* the other's request.
C8_Witness ==
    \E c \in Callers : pc[c] = "idle" /\ overlapped[c] /\ got[c] \in Callers \ {c}

\* C9 as claimed: every request returns to its caller, whether or not the
\* daemon answers.
C9_EveryRequestReturns ==
    \A c \in Callers : (pc[c] = "waiting") ~> (pc[c] = "idle")

\* A caller blocked in recv with nothing to read
C9_Witness ==
    \E c \in Callers : pc[c] = "waiting" /\ sock_recv(W) = "block" /\ last.op = "send"

-----------------------------------------------------------------------------
(* C21: the read of a response from the byte stream (SpecStream) *)

\* The bytes the daemon wrote that the client has not read
Unread == stream.buf \o stream.net

\* The size of the response struct of the last call
ExpectedSize == calcsize(ResponseFmt(stream.expected))

\* C21 as claimed: the read of a send method takes all the bytes of its
\* response struct, however they arrive - the bytes of one response of the
\* daemon, from its first byte on - and what is left unread starts with the
\* first byte of a response.
C21_ShortReadSafe ==
    (stream.op = "recv") =>
        /\ Len(stream.data) = ExpectedSize
        /\ \A i \in 1..Len(stream.data) : stream.data[i].first <=> i = 1
        /\ Unread # <<>> => Unread[1].first

\* A send_add whose recv returned the first byte of the thirteen of the
\* response: the tag was the expected one, unpack raised struct.error and
\* twelve bytes of the response are left in the stream.
C21_Witness ==
    /\ stream.op = "recv" /\ stream.expected = WSERVER_ADD_RESPONSE_TYPE
    /\ Len(stream.data) = 1 /\ stream.data[1].first
    /\ stream.exc = "struct.error"
    /\ Len(Unread) = 12 /\ ~Unread[1].first

\* What the single recv does give: when it returned as many bytes as the
\* struct has, starting with the first byte of a response, these are the bytes
\* of that one response; it is decoded, and the stream is left at the start of
\* the next response.
C21_WholeWhenArrived ==
    (stream.op = "recv" /\ stream.data[1].first /\ Len(stream.data) = ExpectedSize) =>
        /\ \A i \in 2..Len(stream.data) : ~stream.data[i].first
        /\ stream.exc = "none"
        /\ stream.status = stream.data[ExpectedSize].v
        /\ Unread # <<>> => Unread[1].first

-----------------------------------------------------------------------------
(* C22: after a wrong response tag *)

RequestOperations ==
    {"register_interface", "unregister_interface", "update_link_snr",
     "update_link_errprob", "update_link_specprob", "send_del_by_id"}

\* C22 as claimed: once a send method has failed with the unknown-type failure,
\* every later request operation on that connection - one called before the
\* client has disconnected and connected again - fails without writing a
\* request.
C22_MismatchEndsConnection ==
    (last.op \in RequestOperations /\ last.pre.mismatch /\ last.pre.connected) =>
        (last.exc # "none" /\ Sends = <<>>)

\* A register_interface on the connection an earlier call had read a wrongly
\* tagged response on: the request was written, answered and reported as a
\* success.
C22_Witness ==
    /\ last.op = "register_interface" /\ last.pre.mismatch /\ last.pre.connected
    /\ last.pre.sock = "open"
    /\ Answered /\ last.exc = "none"
    /\ registered_interfaces # last.pre.registered_interfaces

\* What the code does after the unknown-type failure: nothing.  The failed call
\* leaves the socket open and both connection flags set.
C22_MismatchLeavesConnectionOpen ==
    (last.exc = "UnknownType") =>
        (ConnectionUnchanged /\ (last.pre.sock = "open" => sock = "open"))

-----------------------------------------------------------------------------
(* C23: two client processes in connect (SpecProcs) *)

\* The processes whose WmediumdStarter has launched a daemon
Launchers == {p \in Clients : cl[p].starter.wmd_process # 0}

\* C23 as claimed: however the steps of the two processes interleave, at most
\* one daemon is started in total.
C23_AtMostOneDaemonStarted ==
    /\ Cardinality(Launchers) <= 1
    /\ procs <= 1

\* Both processes looked for a daemon before either had started one: each has
\* started its own, two daemons run, and both connects have returned.
C23_Witness ==
    /\ Launchers = Clients
    /\ procs = 2
    /\ \A p \in Clients : cl[p].pc = "done" /\ cl[p].exc = "none" /\ cl[p].is_connected

\* What connect does give: a process starts a daemon only after its own look
\* found none and with a valid mode, and it is that process's only daemon; a
\* process that looked when a daemon ran with its socket starts nothing.
C23_StartsOnlyAfterOwnCheck ==
    \A p \in Clients :
        /\ cl[p].starter.wmd_process \in 0..Cardinality(Clients)
        /\ (p \in Launchers) =>
              (cl[p].mode \in ValidModes /\ cl[p].pc \in {"connect", "done"}
                  /\ cl[p].starter.is_managed)
        /\ (cl[p].pc = "start") => p \notin Launchers
        /\ procs = Cardinality(Launchers)

-----------------------------------------------------------------------------
(* C24, C25: WmediumdStarter on its own (SpecStarter, which begins with no    *)
(* daemon running: procs counts the live processes the starter launched)      *)

C25_InitializedModeIsValid ==
    starter.is_initialized => starter.mode \in ValidModes

\* start() has launched a daemon with a stored mode that is none of the three,
\* after initialize(mode=0) and a raising initialize(mode=3).
C25_Witness ==
    /\ last.op = "start" /\ DaemonStarted
    /\ starter.is_initialized
    /\ starter.mode \notin ValidModes /\ dmode \notin ValidModes

\* What initialize does give: a call with another mode raises, stores the mode
\* and leaves is_initialized as it was - clear, when no initialize has
\* returned before; a call that returns has stored a valid mode.
C25_InvalidModeRaises ==
    (last.op = "initialize") =>
        /\ (last.exc = "none") <=> (last.idx \in ValidModes)
        /\ starter.mode = last.idx
        /\ (last.exc = "none") => starter.is_initialized
        /\ (last.exc # "none") =>
              (last.exc = "WrongMode"
                  /\ starter.is_initialized = last.pre.starter.is_initialized)

-----------------------------------------------------------------------------
(* C26: WmediumdManager on its own (SpecManager) *)

\* C26: with only WmediumdManager's operations called, after every operation
\* - returned or raised - WmediumdManager.is_connected equals
\* WmediumdServerConn.connected, and both are set exactly while the socket is
\* open.
C26_ManagerAndConnectionAgree ==
    /\ is_connected = connected
    /\ connected <=> sock = "open"

\* A disconnect that raised on a rejected unregistration: both flags still set.
C26_Witness ==
    /\ last.op = "disconnect" /\ last.exc = "ErrorCode"
    /\ is_connected /\ connected

====
